---- MODULE Spec2Model ----
(***************************************************************************)
(* Model of the CodeCollab backend (src/backend/server.js): the Socket.IO  *)
(* session synchronizer (join, file:update, file:create, file:delete,      *)
(* chat:message, disconnect) and the REST save endpoint, over a Redis      *)
(* store reached through one ioredis connection.                           *)
(*                                                                         *)
(* Node runs each handler on one thread up to its next `await`.  Every     *)
(* await in the synchronizer is a Redis command; one ioredis connection    *)
(* sends commands in the order they were issued and Redis answers them in  *)
(* that order, so the continuations resume in issue order.  redisQ is      *)
(* that queue: an entry is a command together with the handler frame that  *)
(* resumes on its reply.  A step of the form XxxAfterYyy executes the head *)
(* command on the store and runs the handler up to its next await.         *)
(*                                                                         *)
(* A socket that has connected and sent nothing has no state in the server *)
(* (io.on("connection") only registers its handlers), so the sockets of    *)
(* Conns start out open.  Socket.IO takes a closing socket out of all its  *)
(* rooms before the "disconnect" handler runs, and drops what is emitted   *)
(* to a closed socket.  A chat:message carries the sender's own name, as   *)
(* the client sends it.                                                    *)
(***************************************************************************)
EXTENDS Integers, Sequences, FiniteSets, TLC

\* ---- bounds of the model ----
MaxOps == 3          \* client messages (socket events and REST calls) received
MaxPending == 2      \* handlers suspended at an await at one time

\* ---- input alphabets ----
Conns == {"k1", "k2"}                \* socket ids
Sessions == {"default", "s1"}
Names == {"Anonymous", "alice"}
FileNames == {"a.js"}
Contents == {"x", "y"}
Texts == {"hi"}

Undef == "<undefined>"               \* a field missing from a payload
Http == "<http>"                     \* originator of a REST call (no socket)

\* A mutant of Falsy: only a missing value is rejected, "" passes.
FalsyUndefOnly(v) == v = "<undefined>"

Falsy(v) == v \in {Undef, ""}        \* JavaScript `!v` for a string or undefined
OrDefault(v, d) == IF v = Undef THEN d ELSE v   \* destructuring default `= d`

EmptyMap == [f \in {} |-> ""]

VARIABLES
  conn,        \* conn[k]: "open" | "closed"   (socket lifecycle)
  rooms,       \* rooms[s]: sockets in Socket.IO room s (socket.join)
  socketUser,  \* socketUser[k]: NoInfo or [sessionId, userName]
  filesStore,  \* filesStore[s]: Redis hash session:<s>:files, filename -> content
  usersStore,  \* usersStore[s]: Redis set session:<s>:users
  redisQ,      \* commands issued to Redis and not yet answered, oldest first
  clock,       \* number of client messages received so far; read by Date.now()
  emitted,     \* emitted[k]: events sent to socket k by the last step
  httpRes,     \* response of the last step to its REST caller, or NoRes
  last,        \* the last step taken (history, for stating the properties)
  lastMut,     \* lastMut[s][f]: last mutation of (s,f) executed on the store (history)
  seen,        \* seen[k][s]: receipt number of the latest message of session s
               \* of which socket k was sent an event (history)
  run,         \* run[r]: the POST /run request r: its body, its position in the
               \* handler, its child process and its response
  tempDirs,    \* sessions whose folder temp/<sessionId> exists
  tempFiles,   \* tempFiles[s]: the files of temp/<s>, path -> content
  joinedAs,    \* joinedAs[k]: the <<session, name>> pairs socket k ever sent join
               \* with (history)
  client,      \* client[k]: the React state of the client of socket k: files,
               \* currentFile, editorValue
  outbox       \* outbox[k]: messages the client of k has emitted and the server
               \* has not received yet, oldest first

syncVars == <<conn, rooms, socketUser, filesStore, usersStore, redisQ, clock,
              emitted, httpRes, last, lastMut, seen>>
runVars == <<run, tempDirs, tempFiles>>
clientVars == <<client, outbox>>
extVars == <<joinedAs, client, outbox>>
vars == <<conn, rooms, socketUser, filesStore, usersStore, redisQ, clock,
          emitted, httpRes, last, lastMut, seen, run, tempDirs, tempFiles,
          joinedAs, client, outbox>>

\* the state of App before any event: useState({}), useState(null),
\* useState("// Welcome!")
NoClient == [files |-> EmptyMap, currentFile |-> Undef, editorValue |-> "// Welcome!"]

NoInfo == [sessionId |-> Undef, userName |-> Undef]
NoRes == [status |-> 0, ok |-> FALSE]
NoMut == [kind |-> "none", content |-> Undef, had |-> FALSE]
NoMuts == [f \in FileNames |-> NoMut]

\* ---- Redis commands, as pure functions of the stored value ----
\* A mutant of HSet: HSETNX, which keeps an existing field.
HSetIfAbsent(m, f, c) ==
  IF f \in DOMAIN m THEN m ELSE [x \in DOMAIN m \cup {f} |-> IF x = f THEN c ELSE m[x]]

HSet(m, f, c) == [x \in DOMAIN m \cup {f} |-> IF x = f THEN c ELSE m[x]]

\* A mutant of HDel: the field is emptied instead of removed.
HDelBlank(m, f) == [x \in DOMAIN m |-> IF x = f THEN "" ELSE m[x]]

HDel(m, f) == [x \in DOMAIN m \ {f} |-> m[x]]

\* A mutant of HGetAll: HKEYS, the field names without their values.
HKeysOnly(m) == [x \in DOMAIN m |-> ""]

HGetAll(m) == m

\* A mutant of SAdd: SET semantics, the set is replaced by the one member.
SAddReplace(set, u) == {u}

SAdd(set, u) == set \cup {u}

\* A mutant of SRem: nothing is removed.
SRemNothing(set, u) == set

SRem(set, u) == set \ {u}

SMembers(set) == set

\* ---- Socket.IO broadcast targets ----
\* A mutant of ToOthers: the sender is not excluded.
ToOthersEcho(members, k) == members

ToOthers(members, k) == members \ {k}        \* socket.to(room)

\* A mutant of ToAll: the sender is excluded.
ToAllButSender(members, k) == members \ {k}

ToAll(members, k) == members                 \* io.in(room)

\* socket.emit: reaches the socket only while it is connected
ToSelf(k) == IF conn[k] = "open" THEN {k} ELSE {}

\* ---- events ----
Event(name) == [name |-> name, filename |-> Undef, content |-> Undef,
                userName |-> Undef, text |-> Undef, time |-> 0,
                files |-> EmptyMap, users |-> {}]

\* A mutant of ChatEvent: the sender's name is left out of the payload.
ChatEventNoName(userName, text, time) ==
  [Event("chat:message") EXCEPT !.text = text, !.time = time]

\* the chat:message payload { userName, text, time: Date.now() }
ChatEvent(userName, text, time) ==
  [Event("chat:message") EXCEPT !.userName = userName, !.text = text, !.time = time]

NoEmit == [k \in Conns |-> <<>>]
Send(to, ev) == [k \in Conns |-> IF k \in to THEN <<ev>> ELSE <<>>]
Both(e1, e2) == [k \in Conns |-> e1[k] \o e2[k]]

\* ---- handler frames and step records ----
Frame(h) == [h |-> h, await |-> Undef, conn |-> Undef, sessionId |-> Undef,
             userName |-> Undef, filename |-> Undef, content |-> Undef,
             files |-> EmptyMap, start |-> NoMuts, dirty |-> {}, seq |-> 0]

Step(h) == [h |-> h, conn |-> Undef, sessionId |-> Undef, userName |-> Undef,
            filename |-> Undef, content |-> Undef, text |-> Undef,
            dropped |-> FALSE, dup |-> FALSE, members |-> {},
            start |-> NoMuts, dirty |-> {}, over |-> NoMut, seq |-> 0]

\* bounds: a further client message is received
CanReceive == clock < MaxOps /\ Len(redisQ) < MaxPending

\* history: the receipt number of the next socket message (disconnects included)
NextSeq == clock + Cardinality({k \in Conns : conn[k] = "closed"}) + 1

\* history: the sockets that were sent an event of message n of session s
Seen(em, s, n) ==
  [k \in Conns |-> IF em[k] = <<>> THEN seen[k]
                                   ELSE [seen[k] EXCEPT ![s] = IF n > @ THEN n ELSE @]]

Cur == redisQ[1]
CurIs(h, a) == Len(redisQ) > 0 /\ Cur.h = h /\ Cur.await = a

\* history: a mutation of (s,f) was executed; pending joins of s started before it
MarkDirty(q, s, f) ==
  [i \in 1..Len(q) |->
     IF q[i].h = "join" /\ q[i].sessionId = s
       THEN [q[i] EXCEPT !.dirty = @ \cup {f}] ELSE q[i]]

Mutated(kind, s, f, c) ==
  [lastMut EXCEPT ![s][f] = [kind |-> kind, content |-> c,
                             had |-> (f \in DOMAIN filesStore[s])]]

\* ---- POST /run: requests, folders, child processes ----
\* A path is the sequence of the parts of a file name, <<"main", ".py">>; the
\* empty sequence is a filename missing from the body.  The content of a file
\* is the source text it holds (kind "src") or the source text it was compiled
\* from (kind "bin").
Reqs == {"r1", "r2"}
NoFile == <<>>
NoContent == [kind |-> "none", src |-> Undef]
NoResult == [ok |-> FALSE, out |-> Undef]
NoRunRes == [status |-> 0, ok |-> FALSE, output |-> Undef]
NoFiles == [p \in {} |-> NoContent]
NoRun == [pc |-> "idle", sessionId |-> Undef, language |-> Undef, filename |-> NoFile,
          code |-> Undef, proc |-> "none", read |-> NoContent, nproc |-> 0,
          compiled |-> NoResult, ended |-> "none", res |-> NoRunRes, nres |-> 0]

\* `filename || d`
PathOr(filename, d) == IF filename = NoFile THEN d ELSE filename

\* path.basename(filename, ext): the name without a trailing ext
Basename(filename, ext) ==
  IF filename[Len(filename)] = ext THEN SubSeq(filename, 1, Len(filename) - 1) ELSE filename

\* code.match(/public\s+class\s+([A-Za-z_]\w*)/): the class name, or NoFile
\* when the source declares no public class
PublicClass(code) == IF code = "public class App {}" THEN <<"App">> ELSE NoFile

\* A mutant of BadRequest: only the language is required.
BadRequestLanguageOnly(language, code) == Falsy(language)

\* `!language || !code`
BadRequest(language, code) == Falsy(language) \/ Falsy(code)

\* A mutant of Adapter: a language no branch names is run as a script.
AdapterRunsAnything(language) ==
  CASE language \in {"python", "javascript", "node"} -> "interpreted"
    [] language = "java" -> "java"
    [] language \in {"c", "cpp"} -> "native"
    [] language = "html" -> "passthrough"
    [] OTHER -> "interpreted"

\* the branch of the handler that a language selects
Adapter(language) ==
  CASE language \in {"python", "javascript", "node"} -> "interpreted"
    [] language = "java" -> "java"
    [] language \in {"c", "cpp"} -> "native"
    [] language = "html" -> "passthrough"
    [] OTHER -> "unsupported"

\* the class that the java branch compiles and runs
ClassName(filename, code) ==
  IF PublicClass(code) # NoFile THEN PublicClass(code)
  ELSE IF filename # NoFile THEN Basename(filename, ".java")
  ELSE <<"Main">>

\* the file that the handler writes the source to
SourceFile(language, filename, code) ==
  CASE language = "python" -> PathOr(filename, <<"main", ".py">>)
    [] language \in {"javascript", "node"} -> PathOr(filename, <<"main", ".js">>)
    [] language = "java" -> ClassName(filename, code) \o <<".java">>
    [] language = "c" -> PathOr(filename, <<"main", ".c">>)
    [] language = "cpp" -> PathOr(filename, <<"main", ".cpp">>)
    [] OTHER -> NoFile

\* the file that the compile step writes and the run step loads (a.out is
\* main.exe on Windows: one name per folder on either platform)
Artifact(language, filename, code) ==
  IF language = "java" THEN ClassName(filename, code) \o <<".class">>
                       ELSE <<"a", ".out">>

\* fs.writeFileSync(path, content): creates or overwrites
WriteFile(dir, p, c) == [x \in DOMAIN dir \cup {p} |-> IF x = p THEN c ELSE dir[x]]

\* err.message of the error that exec passes to its callback, for a non-zero
\* exit and for a child killed at the timeout alike
ErrMessage == "Command failed"

\* runCommand: what the promise resolves to when the child has closed
RunCommand(outcome, stdout, stderr) ==
  IF outcome # "exit0"
    THEN [ok |-> FALSE, out |-> IF stderr = "" THEN ErrMessage ELSE stderr]
    ELSE [ok |-> TRUE, out |-> stdout]

\* A mutant of ShortCircuit: the run step follows the compile step always.
ShortCircuitNever(compileResult) == FALSE

\* `if (!compileResult.ok) return res.json(...)`
ShortCircuit(compileResult) == ~compileResult.ok

\* A mutant of StepResponse: a failed step is answered as a server fault.
StepResponseFault(result) ==
  IF result.ok THEN [status |-> 200, ok |-> TRUE, output |-> result.out]
               ELSE [status |-> 500, ok |-> FALSE, output |-> result.out]

\* res.json({ output: result.out, ok: result.ok })
StepResponse(result) == [status |-> 200, ok |-> result.ok, output |-> result.out]

\* what a program prints: the model names an output after the program text
\* that produced it
Stdout(content) == content.src

Init ==
  /\ conn = [k \in Conns |-> "open"]
  /\ rooms = [s \in Sessions |-> {}]
  /\ socketUser = [k \in Conns |-> NoInfo]
  /\ filesStore = [s \in Sessions |-> EmptyMap]
  /\ usersStore = [s \in Sessions |-> {}]
  /\ redisQ = <<>>
  /\ clock = 0
  /\ emitted = NoEmit
  /\ httpRes = NoRes
  /\ last = Step("init")
  /\ lastMut = [s \in Sessions |-> NoMuts]
  /\ seen = [k \in Conns |-> [s \in Sessions |-> 0]]
  /\ run = [r \in Reqs |-> NoRun]
  /\ tempDirs = {}
  /\ tempFiles = [s \in Sessions |-> NoFiles]
  /\ joinedAs = [k \in Conns |-> {}]
  /\ client = [k \in Conns |-> NoClient]
  /\ outbox = [k \in Conns |-> <<>>]

\* socket.on("join"), up to `await redis.sadd`
Join(k, sid, uname) ==
  LET sessionId == OrDefault(sid, "default")
      userName == OrDefault(uname, "Anonymous")
  IN
  /\ conn[k] = "open" /\ CanReceive
  /\ clock' = clock + 1
  /\ rooms' = [rooms EXCEPT ![sessionId] = @ \cup {k}]
  /\ socketUser' = [socketUser EXCEPT ![k] = [sessionId |-> sessionId, userName |-> userName]]
  /\ redisQ' = Append(redisQ, [Frame("join") EXCEPT !.seq = NextSeq, !.await = "sadd", !.conn = k,
                                 !.sessionId = sessionId, !.userName = userName,
                                 !.start = lastMut[sessionId]])
  /\ emitted' = NoEmit
  /\ httpRes' = NoRes
  /\ last' = [Step("join") EXCEPT !.conn = k, !.sessionId = sessionId, !.userName = userName]
  /\ UNCHANGED <<conn, filesStore, usersStore, lastMut, seen>>
  /\ UNCHANGED runVars

\* join: sadd answered; up to `await redis.hgetall`
JoinAfterSadd ==
  /\ CurIs("join", "sadd")
  /\ usersStore' = [usersStore EXCEPT ![Cur.sessionId] = SAdd(@, Cur.userName)]
  /\ redisQ' = Append(Tail(redisQ), [Cur EXCEPT !.await = "hgetall"])
  /\ emitted' = NoEmit
  /\ httpRes' = NoRes
  /\ last' = [Step("join.sadd") EXCEPT !.conn = Cur.conn, !.sessionId = Cur.sessionId,
                !.userName = Cur.userName,
                !.dup = (Cur.userName \in usersStore[Cur.sessionId])]
  /\ UNCHANGED <<conn, rooms, socketUser, filesStore, clock, lastMut, seen>>
  /\ UNCHANGED runVars

\* join: hgetall answered; up to `await redis.smembers`
JoinAfterHgetall ==
  /\ CurIs("join", "hgetall")
  /\ redisQ' = Append(Tail(redisQ), [Cur EXCEPT !.await = "smembers",
                                       !.files = HGetAll(filesStore[Cur.sessionId])])
  /\ emitted' = NoEmit
  /\ httpRes' = NoRes
  /\ last' = [Step("join.hgetall") EXCEPT !.conn = Cur.conn, !.sessionId = Cur.sessionId,
                !.userName = Cur.userName]
  /\ UNCHANGED <<conn, rooms, socketUser, filesStore, usersStore, clock, lastMut, seen>>
  /\ UNCHANGED runVars

\* join: smembers answered; session:init to the joiner, user:join to the others
JoinAfterSmembers ==
  /\ CurIs("join", "smembers")
  /\ redisQ' = Tail(redisQ)
  /\ emitted' = Both(
       Send(ToSelf(Cur.conn),
            [Event("session:init") EXCEPT !.files = Cur.files,
                                          !.users = SMembers(usersStore[Cur.sessionId])]),
       Send(ToOthers(rooms[Cur.sessionId], Cur.conn),
            [Event("user:join") EXCEPT !.userName = Cur.userName]))
  /\ seen' = Seen(emitted', Cur.sessionId, Cur.seq)
  /\ httpRes' = NoRes
  /\ last' = [Step("join.init") EXCEPT !.seq = Cur.seq, !.conn = Cur.conn, !.sessionId = Cur.sessionId,
                !.userName = Cur.userName, !.members = rooms[Cur.sessionId],
                !.start = Cur.start, !.dirty = Cur.dirty]
  /\ UNCHANGED <<conn, rooms, socketUser, filesStore, usersStore, clock, lastMut>>
  /\ UNCHANGED runVars

\* socket.on("file:update"), up to `await redis.hset`
FileUpdate(k, sid, filename, content) ==
  LET sessionId == OrDefault(sid, "default") IN
  /\ conn[k] = "open" /\ CanReceive
  /\ clock' = clock + 1
  /\ redisQ' = IF Falsy(filename) THEN redisQ
               ELSE Append(redisQ, [Frame("update") EXCEPT !.seq = NextSeq, !.await = "hset", !.conn = k,
                                      !.sessionId = sessionId, !.filename = filename,
                                      !.content = content])
  /\ emitted' = NoEmit
  /\ httpRes' = NoRes
  /\ last' = IF Falsy(filename)
               THEN [Step("update") EXCEPT !.filename = filename, !.dropped = TRUE]
               ELSE [Step("update") EXCEPT !.conn = k, !.sessionId = sessionId,
                       !.filename = filename, !.content = content]
  /\ UNCHANGED <<conn, rooms, socketUser, filesStore, usersStore, lastMut, seen>>
  /\ UNCHANGED runVars

\* file:update: hset answered; file:updated to the other sockets of the room
UpdateAfterHset ==
  /\ CurIs("update", "hset")
  /\ filesStore' = [filesStore EXCEPT ![Cur.sessionId] = HSet(@, Cur.filename, Cur.content)]
  /\ redisQ' = MarkDirty(Tail(redisQ), Cur.sessionId, Cur.filename)
  /\ emitted' = Send(ToOthers(rooms[Cur.sessionId], Cur.conn),
                     [Event("file:updated") EXCEPT !.filename = Cur.filename,
                                                   !.content = Cur.content])
  /\ seen' = Seen(emitted', Cur.sessionId, Cur.seq)
  /\ httpRes' = NoRes
  /\ last' = [Step("update.done") EXCEPT !.seq = Cur.seq, !.conn = Cur.conn, !.sessionId = Cur.sessionId,
                !.filename = Cur.filename, !.content = Cur.content,
                !.members = rooms[Cur.sessionId],
                !.over = lastMut[Cur.sessionId][Cur.filename]]
  /\ lastMut' = Mutated("update", Cur.sessionId, Cur.filename, Cur.content)
  /\ UNCHANGED <<conn, rooms, socketUser, usersStore, clock>>
  /\ UNCHANGED runVars

\* socket.on("file:create"), up to `await redis.hset`
FileCreate(k, sid, filename, cont) ==
  LET sessionId == OrDefault(sid, "default")
      content == OrDefault(cont, "")
  IN
  /\ conn[k] = "open" /\ CanReceive
  /\ clock' = clock + 1
  /\ redisQ' = IF Falsy(filename) THEN redisQ
               ELSE Append(redisQ, [Frame("create") EXCEPT !.seq = NextSeq, !.await = "hset", !.conn = k,
                                      !.sessionId = sessionId, !.filename = filename,
                                      !.content = content])
  /\ emitted' = NoEmit
  /\ httpRes' = NoRes
  /\ last' = IF Falsy(filename)
               THEN [Step("create") EXCEPT !.filename = filename, !.dropped = TRUE]
               ELSE [Step("create") EXCEPT !.conn = k, !.sessionId = sessionId,
                       !.filename = filename, !.content = content]
  /\ UNCHANGED <<conn, rooms, socketUser, filesStore, usersStore, lastMut, seen>>
  /\ UNCHANGED runVars

\* file:create: hset answered; file:created to every socket of the room
CreateAfterHset ==
  /\ CurIs("create", "hset")
  /\ filesStore' = [filesStore EXCEPT ![Cur.sessionId] = HSet(@, Cur.filename, Cur.content)]
  /\ redisQ' = MarkDirty(Tail(redisQ), Cur.sessionId, Cur.filename)
  /\ emitted' = Send(ToAll(rooms[Cur.sessionId], Cur.conn),
                     [Event("file:created") EXCEPT !.filename = Cur.filename,
                                                   !.content = Cur.content])
  /\ seen' = Seen(emitted', Cur.sessionId, Cur.seq)
  /\ httpRes' = NoRes
  /\ last' = [Step("create.done") EXCEPT !.seq = Cur.seq, !.conn = Cur.conn, !.sessionId = Cur.sessionId,
                !.filename = Cur.filename, !.content = Cur.content,
                !.members = rooms[Cur.sessionId],
                !.over = lastMut[Cur.sessionId][Cur.filename]]
  /\ lastMut' = Mutated("create", Cur.sessionId, Cur.filename, Cur.content)
  /\ UNCHANGED <<conn, rooms, socketUser, usersStore, clock>>
  /\ UNCHANGED runVars

\* socket.on("file:delete"), up to `await redis.hdel`
FileDelete(k, sid, filename) ==
  LET sessionId == OrDefault(sid, "default") IN
  /\ conn[k] = "open" /\ CanReceive
  /\ clock' = clock + 1
  /\ redisQ' = IF Falsy(filename) THEN redisQ
               ELSE Append(redisQ, [Frame("delete") EXCEPT !.seq = NextSeq, !.await = "hdel", !.conn = k,
                                      !.sessionId = sessionId, !.filename = filename])
  /\ emitted' = NoEmit
  /\ httpRes' = NoRes
  /\ last' = IF Falsy(filename)
               THEN [Step("delete") EXCEPT !.filename = filename, !.dropped = TRUE]
               ELSE [Step("delete") EXCEPT !.conn = k, !.sessionId = sessionId,
                       !.filename = filename]
  /\ UNCHANGED <<conn, rooms, socketUser, filesStore, usersStore, lastMut, seen>>
  /\ UNCHANGED runVars

\* file:delete: hdel answered; file:deleted to every socket of the room
DeleteAfterHdel ==
  /\ CurIs("delete", "hdel")
  /\ filesStore' = [filesStore EXCEPT ![Cur.sessionId] = HDel(@, Cur.filename)]
  /\ redisQ' = MarkDirty(Tail(redisQ), Cur.sessionId, Cur.filename)
  /\ emitted' = Send(ToAll(rooms[Cur.sessionId], Cur.conn),
                     [Event("file:deleted") EXCEPT !.filename = Cur.filename])
  /\ seen' = Seen(emitted', Cur.sessionId, Cur.seq)
  /\ httpRes' = NoRes
  /\ last' = [Step("delete.done") EXCEPT !.seq = Cur.seq, !.conn = Cur.conn, !.sessionId = Cur.sessionId,
                !.filename = Cur.filename, !.members = rooms[Cur.sessionId],
                !.over = lastMut[Cur.sessionId][Cur.filename]]
  /\ lastMut' = Mutated("delete", Cur.sessionId, Cur.filename, Undef)
  /\ UNCHANGED <<conn, rooms, socketUser, usersStore, clock>>
  /\ UNCHANGED runVars

\* socket.on("chat:message"): no await, the broadcast is immediate
ChatMessage(k, sid, userName, text) ==
  LET sessionId == OrDefault(sid, "default") IN
  /\ conn[k] = "open" /\ CanReceive
  /\ clock' = clock + 1
  /\ emitted' = Send(ToAll(rooms[sessionId], k), ChatEvent(userName, text, clock'))
  /\ seen' = Seen(emitted', sessionId, NextSeq)
  /\ httpRes' = NoRes
  /\ last' = [Step("chat") EXCEPT !.seq = NextSeq, !.conn = k, !.sessionId = sessionId,
                !.userName = userName, !.text = text, !.members = rooms[sessionId]]
  /\ UNCHANGED <<conn, rooms, socketUser, filesStore, usersStore, redisQ, lastMut>>
  /\ UNCHANGED runVars

\* A mutant of Disconnect: presence counted per connection, the name is kept
\* while another socket is bound to the same (session, name).
DisconnectCounted(k) ==
  LET info == socketUser[k]
      held == \E k2 \in Conns \ {k} : socketUser[k2] = info
  IN
  /\ conn[k] = "open" /\ Len(redisQ) < MaxPending
  /\ conn' = [conn EXCEPT ![k] = "closed"]
  /\ rooms' = [s \in Sessions |-> rooms[s] \ {k}]
  /\ redisQ' = IF info = NoInfo \/ held THEN redisQ
               ELSE Append(redisQ, [Frame("disconnect") EXCEPT !.seq = NextSeq, !.await = "srem", !.conn = k,
                                      !.sessionId = info.sessionId,
                                      !.userName = info.userName])
  /\ emitted' = NoEmit
  /\ httpRes' = NoRes
  /\ last' = [Step("disconnect") EXCEPT !.conn = k, !.sessionId = info.sessionId,
                !.userName = info.userName, !.dropped = (info = NoInfo)]
  /\ UNCHANGED <<socketUser, filesStore, usersStore, clock, lastMut, seen>>
  /\ UNCHANGED runVars

\* the transport closes socket k: Socket.IO takes it out of its rooms, then
\* socket.on("disconnect") runs up to `await redis.srem`
Disconnect(k) ==
  LET info == socketUser[k] IN
  /\ conn[k] = "open" /\ Len(redisQ) < MaxPending
  /\ conn' = [conn EXCEPT ![k] = "closed"]
  /\ rooms' = [s \in Sessions |-> rooms[s] \ {k}]
  /\ redisQ' = IF info = NoInfo THEN redisQ
               ELSE Append(redisQ, [Frame("disconnect") EXCEPT !.seq = NextSeq, !.await = "srem", !.conn = k,
                                      !.sessionId = info.sessionId,
                                      !.userName = info.userName])
  /\ emitted' = NoEmit
  /\ httpRes' = NoRes
  /\ last' = [Step("disconnect") EXCEPT !.conn = k, !.sessionId = info.sessionId,
                !.userName = info.userName, !.dropped = (info = NoInfo)]
  /\ UNCHANGED <<socketUser, filesStore, usersStore, clock, lastMut, seen>>
  /\ UNCHANGED runVars

\* disconnect: srem answered; user:left to the sockets still in the room
DisconnectAfterSrem ==
  /\ CurIs("disconnect", "srem")
  /\ usersStore' = [usersStore EXCEPT ![Cur.sessionId] = SRem(@, Cur.userName)]
  /\ redisQ' = Tail(redisQ)
  /\ emitted' = Send(ToOthers(rooms[Cur.sessionId], Cur.conn),
                     [Event("user:left") EXCEPT !.userName = Cur.userName])
  /\ socketUser' = [socketUser EXCEPT ![Cur.conn] = NoInfo]
  /\ seen' = Seen(emitted', Cur.sessionId, Cur.seq)
  /\ httpRes' = NoRes
  /\ last' = [Step("disconnect.done") EXCEPT !.seq = Cur.seq, !.conn = Cur.conn, !.sessionId = Cur.sessionId,
                !.userName = Cur.userName, !.members = rooms[Cur.sessionId]]
  /\ UNCHANGED <<conn, rooms, filesStore, clock, lastMut>>
  /\ UNCHANGED runVars

\* A mutant of Save: `!content` in place of `content == null`, an empty content
\* is refused.
SaveRejectsEmpty(sessionId, filename, content) ==
  LET bad == Falsy(filename) \/ Falsy(content) IN
  /\ CanReceive
  /\ clock' = clock + 1
  /\ redisQ' = IF bad THEN redisQ
               ELSE Append(redisQ, [Frame("save") EXCEPT !.await = "hset", !.conn = Http,
                                      !.sessionId = sessionId, !.filename = filename,
                                      !.content = content])
  /\ emitted' = NoEmit
  /\ httpRes' = IF bad THEN [status |-> 400, ok |-> FALSE] ELSE NoRes
  /\ last' = IF bad
               THEN [Step("save") EXCEPT !.filename = filename, !.content = content,
                       !.dropped = TRUE]
               ELSE [Step("save") EXCEPT !.conn = Http, !.sessionId = sessionId,
                       !.filename = filename, !.content = content]
  /\ UNCHANGED <<conn, rooms, socketUser, filesStore, usersStore, lastMut, seen>>
  /\ UNCHANGED runVars

\* POST /files/:sessionId/save, up to `await redis.hset`
Save(sessionId, filename, content) ==
  LET bad == Falsy(filename) \/ content = Undef IN
  /\ CanReceive
  /\ clock' = clock + 1
  /\ redisQ' = IF bad THEN redisQ
               ELSE Append(redisQ, [Frame("save") EXCEPT !.await = "hset", !.conn = Http,
                                      !.sessionId = sessionId, !.filename = filename,
                                      !.content = content])
  /\ emitted' = NoEmit
  /\ httpRes' = IF bad THEN [status |-> 400, ok |-> FALSE] ELSE NoRes
  /\ last' = IF bad
               THEN [Step("save") EXCEPT !.filename = filename, !.content = content,
                       !.dropped = TRUE]
               ELSE [Step("save") EXCEPT !.conn = Http, !.sessionId = sessionId,
                       !.filename = filename, !.content = content]
  /\ UNCHANGED <<conn, rooms, socketUser, filesStore, usersStore, lastMut, seen>>
  /\ UNCHANGED runVars

\* save: hset answered; file:updated to every socket of the room, {ok:true} to the caller
SaveAfterHset ==
  /\ CurIs("save", "hset")
  /\ filesStore' = [filesStore EXCEPT ![Cur.sessionId] = HSet(@, Cur.filename, Cur.content)]
  /\ redisQ' = MarkDirty(Tail(redisQ), Cur.sessionId, Cur.filename)
  /\ emitted' = Send(ToAll(rooms[Cur.sessionId], Http),
                     [Event("file:updated") EXCEPT !.filename = Cur.filename,
                                                   !.content = Cur.content])
  /\ httpRes' = [status |-> 200, ok |-> TRUE]
  /\ last' = [Step("save.done") EXCEPT !.conn = Http, !.sessionId = Cur.sessionId,
                !.filename = Cur.filename, !.content = Cur.content,
                !.members = rooms[Cur.sessionId],
                !.over = lastMut[Cur.sessionId][Cur.filename]]
  /\ lastMut' = Mutated("save", Cur.sessionId, Cur.filename, Cur.content)
  /\ UNCHANGED <<conn, rooms, socketUser, usersStore, clock, seen>>
  /\ UNCHANGED runVars

\* ---- inputs ----
\* a missing sessionId stands for "default", a missing userName for "Anonymous"
SessionArgs == (Sessions \ {"default"}) \cup {Undef}
NameArgs == (Names \ {"Anonymous"}) \cup {Undef}
FilenameArgs == FileNames \cup {"", Undef}
TextArgs == Texts \cup {"", Undef}
ContentArgs == {"x", Undef}          \* file:create: a missing content stands for ""

Next ==
  \/ \E k \in Conns, sid \in SessionArgs, u \in NameArgs : Join(k, sid, u) /\ UNCHANGED extVars
  \/ JoinAfterSadd /\ UNCHANGED extVars
  \/ JoinAfterHgetall /\ UNCHANGED extVars
  \/ JoinAfterSmembers /\ UNCHANGED extVars
  \/ \E k \in Conns, sid \in SessionArgs, f \in FilenameArgs, c \in Contents :
       FileUpdate(k, sid, f, c) /\ UNCHANGED extVars
  \/ UpdateAfterHset /\ UNCHANGED extVars
  \/ \E k \in Conns, sid \in SessionArgs, f \in FilenameArgs, c \in ContentArgs :
       FileCreate(k, sid, f, c) /\ UNCHANGED extVars
  \/ CreateAfterHset /\ UNCHANGED extVars
  \/ \E k \in Conns, sid \in SessionArgs, f \in FilenameArgs : FileDelete(k, sid, f) /\ UNCHANGED extVars
  \/ DeleteAfterHdel /\ UNCHANGED extVars
  \/ \E k \in Conns, sid \in SessionArgs, t \in TextArgs :
       ChatMessage(k, sid, OrDefault(socketUser[k].userName, "alice"), t) /\ UNCHANGED extVars
  \/ \E k \in Conns : Disconnect(k) /\ UNCHANGED extVars
  \/ DisconnectAfterSrem /\ UNCHANGED extVars
  \/ \E sid \in Sessions, f \in FilenameArgs, c \in {"y", "", Undef} :
       Save(sid, f, c) /\ UNCHANGED extVars
  \/ SaveAfterHset /\ UNCHANGED extVars

Spec == Init /\ [][Next]_vars

\* ---- POST /run ----
\* A child process is an actor of its own: exec starts it, it opens the file
\* named on its command line some time later (ProcRead), and the callback of
\* exec runs when it has closed.  XxxDone is the close of the child together
\* with the callback and the handler up to its next await or its response; the
\* outcome "timeout" is a child that the timeout of exec killed.  Two requests
\* are numbered in the order they arrive.  mkdirSync is taken to succeed.

\* the requests that arrive before request r
Earlier(r) == IF r = "r2" THEN {"r1"} ELSE {}

\* the file that the pending step of request q opens
StepFile(q) ==
  IF q.pc = "compile" \/ Adapter(q.language) = "interpreted"
    THEN SourceFile(q.language, q.filename, q.code)
    ELSE Artifact(q.language, q.filename, q.code)

\* app.post("/run"), up to the first `await runCommand` or the response
RunStart(r, sid, language, filename, code, writable) ==
  LET sessionId == OrDefault(sid, "default")
      q == [NoRun EXCEPT !.sessionId = sessionId, !.language = language,
                         !.filename = filename, !.code = code]
      file == SourceFile(language, filename, code)
      answer(status, ok, output) ==
        [q EXCEPT !.pc = "done", !.nres = 1,
                  !.res = [status |-> status, ok |-> ok, output |-> output]]
  IN
  /\ run[r].pc = "idle"
  /\ \A o \in Earlier(r) : run[o].pc # "idle"
  /\ IF BadRequest(language, code)
       THEN /\ run' = [run EXCEPT ![r] = answer(400, FALSE, Undef)]
            /\ UNCHANGED <<tempDirs, tempFiles>>
       ELSE /\ tempDirs' = tempDirs \cup {sessionId}
            /\ CASE Adapter(language) = "passthrough" ->
                      /\ run' = [run EXCEPT ![r] = answer(200, TRUE, code)]
                      /\ UNCHANGED tempFiles
                 [] Adapter(language) = "unsupported" ->
                      /\ run' = [run EXCEPT ![r] = answer(200, FALSE, "Language not supported")]
                      /\ UNCHANGED tempFiles
                 [] OTHER ->
                      IF ~writable
                        THEN /\ run' = [run EXCEPT ![r] = answer(500, FALSE, "Server error")]
                             /\ UNCHANGED tempFiles
                        ELSE /\ tempFiles' = [tempFiles EXCEPT ![sessionId] =
                                                WriteFile(@, file, [kind |-> "src", src |-> code])]
                             /\ run' = [run EXCEPT ![r] =
                                          [q EXCEPT !.pc = IF Adapter(language) = "interpreted"
                                                             THEN "run" ELSE "compile",
                                                    !.proc = "spawned", !.nproc = 1]]
  /\ UNCHANGED syncVars

\* the child of the pending step opens its source file or its binary
ProcRead(r) ==
  LET q == run[r]
      dir == tempFiles[q.sessionId]
  IN
  /\ q.pc \in {"compile", "run"} /\ q.proc = "spawned"
  /\ run' = [run EXCEPT ![r].proc = "read",
                        ![r].read = IF StepFile(q) \in DOMAIN dir THEN dir[StepFile(q)]
                                                                  ELSE NoContent]
  /\ UNCHANGED <<tempDirs, tempFiles>>
  /\ UNCHANGED syncVars

\* javac / gcc / g++ has closed: `compileResult = await runCommand(...)`, then
\* the response or the start of the run step
CompileDone(r, outcome, stderr) ==
  LET q == run[r]
      compileResult == RunCommand(outcome, "", stderr)
  IN
  /\ q.pc = "compile" /\ q.proc \in {"spawned", "read"}
  /\ outcome = "exit0" => (q.proc = "read" /\ q.read # NoContent /\ stderr = "")
  /\ tempFiles' = IF outcome = "exit0"
                    THEN [tempFiles EXCEPT ![q.sessionId] =
                            WriteFile(@, Artifact(q.language, q.filename, q.code),
                                      [kind |-> "bin", src |-> q.read.src])]
                    ELSE tempFiles
  /\ run' = [run EXCEPT ![r] =
               IF ShortCircuit(compileResult)
                 THEN [q EXCEPT !.pc = "done", !.proc = "none", !.compiled = compileResult,
                                !.ended = outcome, !.nres = @ + 1,
                                !.res = [status |-> 200, ok |-> FALSE,
                                         output |-> compileResult.out]]
                 ELSE [q EXCEPT !.pc = "run", !.proc = "spawned", !.read = NoContent,
                                !.compiled = compileResult, !.ended = outcome,
                                !.nproc = @ + 1]]
  /\ UNCHANGED tempDirs
  /\ UNCHANGED syncVars

\* python / node / java / the binary has closed: `await runCommand(...)`, then
\* the response
RunDone(r, outcome, stderr) ==
  LET q == run[r]
      result == RunCommand(outcome, Stdout(q.read), stderr)
  IN
  /\ q.pc = "run" /\ q.proc \in {"spawned", "read"}
  /\ outcome = "exit0" => (q.proc = "read" /\ q.read # NoContent /\ stderr = "")
  /\ run' = [run EXCEPT ![r] = [q EXCEPT !.pc = "done", !.proc = "none", !.ended = outcome,
                                         !.nres = @ + 1, !.res = StepResponse(result)]]
  /\ UNCHANGED <<tempDirs, tempFiles>>
  /\ UNCHANGED syncVars

\* The timeout of exec sends SIGTERM to the shell it started (shell: true, no
\* killSignal): a program that ignores the signal, or that the shell started
\* as its own child, keeps the pipes open, the child never closes and the
\* callback never runs.
KillIgnored(r) ==
  /\ run[r].pc \in {"compile", "run"} /\ run[r].proc \in {"spawned", "read"}
  /\ run' = [run EXCEPT ![r].proc = "survived"]
  /\ UNCHANGED <<tempDirs, tempFiles>>
  /\ UNCHANGED syncVars

LanguageArgs == {"python", "javascript", "java", "c", "cpp", "html", "ruby", Undef}
RunFilenameArgs == {NoFile, <<"App", ".java">>}
CodeArgs == {"print(1)", "public class App {}", Undef}
Outcomes == {"exit0", "exit1", "timeout"}
StderrTexts == {"", "boom"}

NextRun ==
  \/ \E r \in Reqs, sid \in SessionArgs, l \in LanguageArgs, f \in RunFilenameArgs,
        c \in CodeArgs, w \in BOOLEAN : RunStart(r, sid, l, f, c, w) /\ UNCHANGED extVars
  \/ \E r \in Reqs : ProcRead(r) /\ UNCHANGED extVars
  \/ \E r \in Reqs, o \in Outcomes, e \in StderrTexts : CompileDone(r, o, e) /\ UNCHANGED extVars
  \/ \E r \in Reqs, o \in Outcomes, e \in StderrTexts : RunDone(r, o, e) /\ UNCHANGED extVars
  \/ \E r \in Reqs : KillIgnored(r) /\ UNCHANGED extVars

SpecRun == Init /\ [][NextRun]_vars

\* ---- presence over the life of a socket ----
\* The join and disconnect handlers, with the history of the joins of each
\* socket.
NextPresence ==
  \/ \E k \in Conns, sid \in SessionArgs, u \in NameArgs :
       /\ Join(k, sid, u)
       /\ joinedAs' = [joinedAs EXCEPT ![k] = @ \cup {<<last'.sessionId, last'.userName>>}]
       /\ UNCHANGED clientVars
  \/ JoinAfterSadd /\ UNCHANGED extVars
  \/ JoinAfterHgetall /\ UNCHANGED extVars
  \/ JoinAfterSmembers /\ UNCHANGED extVars
  \/ \E k \in Conns : Disconnect(k) /\ UNCHANGED extVars
  \/ DisconnectAfterSrem /\ UNCHANGED extVars

SpecPresence == Init /\ [][NextPresence]_vars

\* ---- the clients (App.js) against the synchronizer ----
\* A client keeps files, currentFile and editorValue, emits join from its
\* effect and file:update / file:create / file:delete from its editor and
\* file pane, and applies the events it is sent in the order the server
\* emitted them.  outbox[k] is the socket from the client to the server; an
\* event the server emits is handled by the client in the same step.  The
\* clients stay in the session "default".
Msg(name) == [name |-> name, sessionId |-> "default", userName |-> Undef,
              filename |-> Undef, content |-> Undef]

\* the display name a client holds in userName
ClientName(k) == IF k = "k1" THEN "alice" ELSE "Anonymous"

JoinMsg(k) == [Msg("join") EXCEPT !.userName = ClientName(k)]

\* `{ ...f, [filename]: content }`
Put(files, filename, content) ==
  [x \in DOMAIN files \cup {filename} |-> IF x = filename THEN content ELSE files[x]]

\* `delete copy[filename]`
Del(files, filename) == [x \in DOMAIN files \ {filename} |-> files[x]]

\* the handler that the client registered for the event ev, applied to the
\* state c
On(c, ev) ==
  CASE ev.name = "session:init" ->
         IF DOMAIN ev.files # {}
           THEN LET first == CHOOSE f \in DOMAIN ev.files : TRUE IN
                [files |-> ev.files, currentFile |-> first, editorValue |-> ev.files[first]]
           ELSE [c EXCEPT !.files = ev.files, !.editorValue = "// Start typing"]
    [] ev.name = "file:created" -> [c EXCEPT !.files = Put(@, ev.filename, ev.content)]
    [] ev.name = "file:deleted" ->
         IF c.currentFile = ev.filename
           THEN [files |-> Del(c.files, ev.filename), currentFile |-> Undef,
                 editorValue |-> "// No file open"]
           ELSE [c EXCEPT !.files = Del(@, ev.filename)]
    [] ev.name = "file:updated" ->
         IF c.currentFile = ev.filename
           THEN [c EXCEPT !.files = Put(@, ev.filename, ev.content), !.editorValue = ev.content]
           ELSE [c EXCEPT !.files = Put(@, ev.filename, ev.content)]
    [] OTHER -> c

RECURSIVE OnAll(_, _)
OnAll(c, evs) == IF evs = <<>> THEN c ELSE OnAll(On(c, Head(evs)), Tail(evs))

\* the effect with dependencies [sessionId, userName, currentFile]: it runs
\* again, and emits join again, when currentFile has changed
Effect(k, before, after) ==
  IF before.currentFile # after.currentFile THEN <<JoinMsg(k)>> ELSE <<>>

\* the clients handle what the step has emitted; the message of `sender`, if
\* any, has left its socket
Deliver(sender) ==
  /\ client' = [k \in Conns |-> OnAll(client[k], emitted'[k])]
  /\ outbox' = [k \in Conns |->
                  (IF k = sender THEN Tail(outbox[k]) ELSE outbox[k])
                    \o Effect(k, client[k], client'[k])]

\* bounds: a client emits a further message
CanEmit == clock + Len(outbox["k1"]) + Len(outbox["k2"]) < MaxOps

\* onEditorChange(val): the user has changed the text of the editor to val
ClientEdit(k, val) ==
  /\ conn[k] = "open" /\ CanEmit
  /\ val # client[k].editorValue
  /\ client' = [client EXCEPT ![k].editorValue = val]
  /\ outbox' = IF client[k].currentFile # Undef
                 THEN [outbox EXCEPT ![k] =
                         Append(@, [Msg("file:update") EXCEPT !.filename = client[k].currentFile,
                                                              !.content = val])]
                 ELSE outbox
  /\ UNCHANGED <<syncVars, runVars, joinedAs>>

\* createFile(), the user having typed filename at the prompt
ClientCreate(k, filename) ==
  /\ conn[k] = "open" /\ CanEmit
  /\ outbox' = IF Falsy(filename) THEN outbox
               ELSE [outbox EXCEPT ![k] =
                       Append(@, [Msg("file:create") EXCEPT !.filename = filename,
                                                            !.content = "// new"])]
  /\ UNCHANGED <<client, syncVars, runVars, joinedAs>>

\* deleteFile(fn) on a file of the file pane, confirmed
ClientDelete(k, fn) ==
  /\ conn[k] = "open" /\ CanEmit
  /\ fn \in DOMAIN client[k].files
  /\ outbox' = [outbox EXCEPT ![k] = Append(@, [Msg("file:delete") EXCEPT !.filename = fn])]
  /\ UNCHANGED <<client, syncVars, runVars, joinedAs>>

\* the server receives the oldest message of the socket of k
Receive(k) ==
  /\ outbox[k] # <<>>
  /\ LET m == Head(outbox[k]) IN
       \/ m.name = "join" /\ Join(k, m.sessionId, m.userName)
       \/ m.name = "file:update" /\ FileUpdate(k, m.sessionId, m.filename, m.content)
       \/ m.name = "file:create" /\ FileCreate(k, m.sessionId, m.filename, m.content)
       \/ m.name = "file:delete" /\ FileDelete(k, m.sessionId, m.filename)
  /\ Deliver(k)
  /\ UNCHANGED joinedAs

\* The clients of `joined` are in the session, which holds a.js as createFile
\* made it, and have handled their session:init; the others have mounted and
\* emitted join.
InitClient ==
  \E joined \in {{"k1"}, {"k1", "k2"}} :
    /\ conn = [k \in Conns |-> "open"]
    /\ rooms = [s \in Sessions |-> IF s = "default" THEN joined ELSE {}]
    /\ socketUser = [k \in Conns |->
                       IF k \in joined THEN [sessionId |-> "default", userName |-> ClientName(k)]
                                       ELSE NoInfo]
    /\ filesStore = [s \in Sessions |-> IF s = "default" THEN Put(EmptyMap, "a.js", "// new")
                                                         ELSE EmptyMap]
    /\ usersStore = [s \in Sessions |->
                       IF s = "default" THEN {ClientName(k) : k \in joined} ELSE {}]
    /\ redisQ = <<>>
    /\ clock = 0
    /\ emitted = NoEmit
    /\ httpRes = NoRes
    /\ last = Step("init")
    /\ lastMut = [s \in Sessions |-> NoMuts]
    /\ seen = [k \in Conns |-> [s \in Sessions |-> 0]]
    /\ run = [r \in Reqs |-> NoRun]
    /\ tempDirs = {}
    /\ tempFiles = [s \in Sessions |-> NoFiles]
    /\ joinedAs = [k \in Conns |-> {}]
    /\ client = [k \in Conns |->
                   IF k \in joined
                     THEN [files |-> Put(EmptyMap, "a.js", "// new"), currentFile |-> "a.js",
                           editorValue |-> "// new"]
                     ELSE NoClient]
    /\ outbox = [k \in Conns |-> IF k \in joined THEN <<>> ELSE <<JoinMsg(k)>>]

NextClient ==
  \/ \E k \in Conns, val \in Contents : ClientEdit(k, val)
  \/ \E k \in Conns, f \in FileNames \cup {""} : ClientCreate(k, f)
  \/ \E k \in Conns, f \in FileNames : ClientDelete(k, f)
  \/ \E k \in Conns : Receive(k)
  \/ JoinAfterSadd /\ Deliver(Undef) /\ UNCHANGED joinedAs
  \/ JoinAfterHgetall /\ Deliver(Undef) /\ UNCHANGED joinedAs
  \/ JoinAfterSmembers /\ Deliver(Undef) /\ UNCHANGED joinedAs
  \/ UpdateAfterHset /\ Deliver(Undef) /\ UNCHANGED joinedAs
  \/ CreateAfterHset /\ Deliver(Undef) /\ UNCHANGED joinedAs
  \/ DeleteAfterHdel /\ Deliver(Undef) /\ UNCHANGED joinedAs

SpecClient == InitClient /\ [][NextClient]_vars

\* ---- the synchronizer while run requests are in progress ----
\* Node runs the handlers of the sockets and of the REST routes on one thread.
\* A step of a handler is atomic here; what could keep the thread between two
\* steps is a handler that waits for its child on the thread.

\* A mutant of HoldsLoop: the handler waits for its child synchronously.
HoldsLoopWhileChildRuns(q) == q.proc \in {"spawned", "read", "survived"}

\* runCommand wraps exec in a Promise and the handler awaits it: exec returns
\* at once, the handler is suspended and holds the thread at no time that its
\* child runs
HoldsLoop(q) == FALSE

\* no handler holds the thread: Node can run a handler of the synchronizer
LoopFree == \A r \in Reqs : ~HoldsLoop(run[r])

\* a handler of the synchronizer resumes on the reply of Redis
SyncResume ==
  /\ LoopFree
  /\ \/ JoinAfterSadd \/ JoinAfterHgetall \/ JoinAfterSmembers
     \/ UpdateAfterHset \/ CreateAfterHset \/ DeleteAfterHdel
     \/ DisconnectAfterSrem \/ SaveAfterHset

NextMixed ==
  \/ \E u \in NameArgs : LoopFree /\ Join("k1", Undef, u) /\ UNCHANGED extVars
  \/ LoopFree /\ JoinAfterSadd /\ UNCHANGED extVars
  \/ LoopFree /\ JoinAfterHgetall /\ UNCHANGED extVars
  \/ LoopFree /\ JoinAfterSmembers /\ UNCHANGED extVars
  \/ \E c \in Contents : LoopFree /\ FileUpdate("k1", Undef, "a.js", c) /\ UNCHANGED extVars
  \/ LoopFree /\ UpdateAfterHset /\ UNCHANGED extVars
  \/ LoopFree /\ FileCreate("k1", Undef, "a.js", Undef) /\ UNCHANGED extVars
  \/ LoopFree /\ CreateAfterHset /\ UNCHANGED extVars
  \/ LoopFree /\ FileDelete("k1", Undef, "a.js") /\ UNCHANGED extVars
  \/ LoopFree /\ DeleteAfterHdel /\ UNCHANGED extVars
  \/ LoopFree /\ ChatMessage("k1", Undef, "alice", "hi") /\ UNCHANGED extVars
  \/ LoopFree /\ Disconnect("k1") /\ UNCHANGED extVars
  \/ LoopFree /\ DisconnectAfterSrem /\ UNCHANGED extVars
  \/ LoopFree /\ Save("default", "a.js", "y") /\ UNCHANGED extVars
  \/ LoopFree /\ SaveAfterHset /\ UNCHANGED extVars
  \/ \E sid \in SessionArgs, l \in {"python", "c"} :
       RunStart("r1", sid, l, NoFile, "print(1)", TRUE) /\ UNCHANGED extVars
  \/ ProcRead("r1") /\ UNCHANGED extVars
  \/ \E o \in Outcomes : CompileDone("r1", o, "") /\ UNCHANGED extVars
  \/ \E o \in Outcomes : RunDone("r1", o, "") /\ UNCHANGED extVars
  \/ KillIgnored("r1") /\ UNCHANGED extVars

SpecMixed == Init /\ [][NextMixed]_vars

\* ---- properties ----
IsInit(ev) == ev.name = "session:init"

\* the one session:init the last step sent to its joiner
SentInit == emitted[last.conn][1]
InitSent == conn[last.conn] = "open" => (Len(emitted[last.conn]) = 1 /\ IsInit(SentInit))
GotInit == Len(emitted[last.conn]) = 1 /\ IsInit(SentInit)

\* C1: a join that starts after createFile(S,f,c) was executed, with no later
\* mutation of (S,f) executed, is answered a session:init whose files map f to c.
C1_JoinSeesCreatedFile ==
  last.h = "join.init" =>
    \A f \in FileNames :
      (last.start[f].kind = "create" /\ f \notin last.dirty) =>
        /\ InitSent
        /\ GotInit => (f \in DOMAIN SentInit.files /\ SentInit.files[f] = last.start[f].content)

C1_Witness ==
  /\ last.h = "join.init"
  /\ GotInit
  /\ \E f \in FileNames :
       /\ last.start[f].kind = "create" /\ last.start[f].had /\ f \notin last.dirty
       /\ f \in DOMAIN SentInit.files /\ SentInit.files[f] = last.start[f].content

\* C2: last-write-wins: when the last mutation executed on (S,f) is an update,
\* the stored content of (S,f) is that update's content, whatever was stored
\* before; the update is neither rejected nor merged.
C2_LastWriteWins ==
  \A s \in Sessions, f \in FileNames :
    lastMut[s][f].kind = "update" =>
      (f \in DOMAIN filesStore[s] /\ filesStore[s][f] = lastMut[s][f].content)

C2_Witness ==
  /\ last.h = "update.done"
  /\ last.over.kind = "update" /\ last.over.content # last.content
  /\ filesStore[last.sessionId][last.filename] = last.content

\* C3: a join that starts after deleteFile(S,f) was executed, with no later
\* mutation of (S,f) executed, is answered a session:init without f.
C3_JoinOmitsDeletedFile ==
  last.h = "join.init" =>
    \A f \in FileNames :
      (last.start[f].kind = "delete" /\ f \notin last.dirty) =>
        /\ InitSent
        /\ GotInit => f \notin DOMAIN SentInit.files

C3_Witness ==
  /\ last.h = "join.init"
  /\ GotInit
  /\ \E f \in FileNames :
       /\ last.start[f].kind = "delete" /\ last.start[f].had /\ f \notin last.dirty
       /\ f \notin DOMAIN SentInit.files

\* what a broadcast of ev to exactly the sockets in `to` leaves in emitted
Exactly(to, ev) == [k \in Conns |-> IF k \in to THEN <<ev>> ELSE <<>>]

UpdatedEvent == [Event("file:updated") EXCEPT !.filename = last.filename,
                                              !.content = last.content]
CreatedEvent == [Event("file:created") EXCEPT !.filename = last.filename,
                                              !.content = last.content]
DeletedEvent == [Event("file:deleted") EXCEPT !.filename = last.filename]
LeftEvent == [Event("user:left") EXCEPT !.userName = last.userName]

\* C4: updateFile(S,f,c) delivers file:updated{f,c} once to every socket in
\* room S except the originating socket, and to no other socket.
C4_UpdateNotEchoed ==
  last.h = "update.done" =>
    /\ last.members = rooms[last.sessionId]
    /\ emitted = Exactly(rooms[last.sessionId] \ {last.conn}, UpdatedEvent)

C4_Witness ==
  /\ last.h = "update.done"
  /\ last.conn \in rooms[last.sessionId]
  /\ emitted[last.conn] = <<>>
  /\ \E k \in rooms[last.sessionId] \ {last.conn} : emitted[k] = <<UpdatedEvent>>

\* C5: createFile and deleteFile deliver file:created / file:deleted once to
\* every socket in room S, the issuing socket included.
C5_CreateDeleteToAll ==
  /\ last.h = "create.done" => emitted = Exactly(rooms[last.sessionId], CreatedEvent)
  /\ last.h = "delete.done" => emitted = Exactly(rooms[last.sessionId], DeletedEvent)

C5_Witness ==
  /\ last.h \in {"create.done", "delete.done"}
  /\ rooms[last.sessionId] = Conns
  /\ \A k \in Conns : Len(emitted[k]) = 1

\* another open socket is bound to the same (session, name) and is in the room
SharedBy(k, s, u) ==
  \E k2 \in Conns \ {k} :
    /\ conn[k2] = "open" /\ k2 \in rooms[s]
    /\ socketUser[k2] = [sessionId |-> s, userName |-> u]

SremPending(k, s, u) ==
  \E i \in 1..Len(redisQ) :
    /\ redisQ[i].h = "disconnect" /\ redisQ[i].conn = k
    /\ redisQ[i].sessionId = s /\ redisQ[i].userName = u

\* C6: presence is a set of names: when a socket bound to (S,u) disconnects while
\* another socket bound to (S,u) is still attached, the removal of u is issued
\* all the same, and once it has run u is absent from S's presence set.
C6_NameRemovedWhileShared ==
  /\ (last.h = "disconnect" /\ ~last.dropped
        /\ SharedBy(last.conn, last.sessionId, last.userName))
       => SremPending(last.conn, last.sessionId, last.userName)
  /\ (last.h = "disconnect.done"
        /\ SharedBy(last.conn, last.sessionId, last.userName))
       => last.userName \notin usersStore[last.sessionId]

C6_Witness ==
  /\ last.h = "disconnect.done"
  /\ redisQ = <<>>
  /\ SharedBy(last.conn, last.sessionId, last.userName)
  /\ last.userName \notin usersStore[last.sessionId]

JoinSteps == {"join", "join.sadd", "join.hgetall", "join.init"}

\* C7: join is idempotent on the store: no step of join changes a file map, and
\* a join(S,u) executed when u is already present leaves every presence set as
\* it was (a first join adds u to S's set and changes nothing else).
C7_JoinIdempotent ==
  [][last'.h \in JoinSteps =>
       /\ filesStore' = filesStore
       /\ (last'.h = "join.sadd" /\ ~last'.dup) =>
            usersStore' = [usersStore EXCEPT ![last'.sessionId] = @ \cup {last'.userName}]
       /\ (last'.h # "join.sadd" \/ last'.dup) => usersStore' = usersStore]_vars

C7_Witness ==
  /\ last.h = "join.sadd" /\ last.dup
  /\ usersStore[last.sessionId] = Names

\* C8: leave: when the disconnect of a socket bound to (S,u) has run, u has been
\* removed from S's presence set (and nothing else) and user:left{u} was sent
\* once to every socket still in room S; the disconnect of a socket that never
\* joined changes no presence set, sends no event and leaves no work pending.
C8_Leave ==
  [][/\ last'.h = "disconnect.done" =>
          /\ usersStore' = [usersStore EXCEPT ![last'.sessionId] = @ \ {last'.userName}]
          /\ emitted' = [k \in Conns |->
                           IF k \in rooms'[last'.sessionId]
                             THEN <<[Event("user:left") EXCEPT !.userName = last'.userName]>>
                             ELSE <<>>]
     /\ (last'.h = "disconnect" /\ last'.dropped) =>
          /\ usersStore' = usersStore
          /\ emitted' = NoEmit
          /\ redisQ' = redisQ]_vars

C8_Witness ==
  /\ last.h = "disconnect.done"
  /\ last.userName \notin usersStore[last.sessionId]
  /\ usersStore[last.sessionId] # {}
  /\ \E k \in rooms[last.sessionId] : emitted[k] = <<LeftEvent>>

\* C9: chat(S,u,text) with an empty or missing text delivers no chat:message.
C9_EmptyChatIsNoOp ==
  (last.h = "chat" /\ Falsy(last.text)) => emitted = NoEmit

\* C10: chat(S,u,text) with a non-empty text delivers one chat:message{u,text,time},
\* time being the server's clock, to every socket in room S and to no other, and
\* changes neither a file map nor a presence set.
C10_ChatRelayed ==
  [][(last'.h = "chat" /\ ~Falsy(last'.text)) =>
       /\ emitted' = [k \in Conns |->
                        IF k \in rooms[last'.sessionId]
                          THEN <<[Event("chat:message") EXCEPT !.userName = last'.userName,
                                                               !.text = last'.text,
                                                               !.time = clock']>>
                          ELSE <<>>]
       /\ filesStore' = filesStore
       /\ usersStore' = usersStore
       /\ redisQ' = redisQ]_vars

C10_Witness ==
  /\ last.h = "chat" /\ ~Falsy(last.text)
  /\ rooms[last.sessionId] = Conns
  /\ \A k \in Conns : Len(emitted[k]) = 1 /\ emitted[k][1].time = clock
  /\ usersStore[last.sessionId] # {}

\* C11: per-session FIFO: a socket is never sent an event of a message of
\* session S after it was sent an event of a message of S that the server
\* received later.
C11_FifoPerSession ==
  [][\A k \in Conns :
       (emitted'[k] # <<>> /\ last'.seq > 0) => last'.seq >= seen[k][last'.sessionId]]_vars

MalformedFilename == {"", Undef}

\* C12: a file:update, file:create or file:delete whose filename is empty or
\* missing is dropped: no store, room or registry change, no event, no command
\* left pending.
C12_MalformedDropped ==
  [][(last'.h \in {"update", "create", "delete"} /\ last'.filename \in MalformedFilename) =>
       /\ filesStore' = filesStore /\ usersStore' = usersStore
       /\ rooms' = rooms /\ socketUser' = socketUser
       /\ emitted' = NoEmit
       /\ redisQ' = redisQ]_vars

C12_Witness ==
  /\ last.h \in {"update", "create", "delete"} /\ last.filename = "" /\ last.dropped
  /\ \E s \in Sessions : filesStore[s] # EmptyMap /\ rooms[s] # {}

\* C13: POST /files/S/save with a non-empty filename and a content that is
\* present ("" included) overwrites (S,filename), sends file:updated to every
\* socket of room S and answers {ok:true}; with the filename empty or missing,
\* or the content missing, it answers 400 and changes and sends nothing.
C13_Save ==
  [][/\ (last'.h = "save" /\ (last'.filename \in MalformedFilename \/ last'.content = Undef)) =>
          /\ httpRes' = [status |-> 400, ok |-> FALSE]
          /\ filesStore' = filesStore /\ usersStore' = usersStore
          /\ emitted' = NoEmit
          /\ redisQ' = redisQ
     /\ (last'.h = "save" /\ last'.filename \notin MalformedFilename /\ last'.content # Undef) =>
          /\ httpRes' = NoRes
          /\ Len(redisQ') = Len(redisQ) + 1
          /\ redisQ'[Len(redisQ')].h = "save"
          /\ redisQ'[Len(redisQ')].sessionId = last'.sessionId
          /\ redisQ'[Len(redisQ')].filename = last'.filename
          /\ redisQ'[Len(redisQ')].content = last'.content
     /\ last'.h = "save.done" =>
          /\ last'.filename \in DOMAIN filesStore'[last'.sessionId]
          /\ filesStore'[last'.sessionId][last'.filename] = last'.content
          /\ emitted' = [k \in Conns |->
                           IF k \in rooms[last'.sessionId]
                             THEN <<[Event("file:updated") EXCEPT !.filename = last'.filename,
                                                                  !.content = last'.content]>>
                             ELSE <<>>]
          /\ httpRes' = [status |-> 200, ok |-> TRUE]]_vars

C13_Witness ==
  /\ last.h = "save.done" /\ last.content = ""
  /\ last.over.kind # "none"
  /\ filesStore[last.sessionId][last.filename] = ""
  /\ \E k \in rooms[last.sessionId] : Len(emitted[k]) = 1
  /\ httpRes.ok

\* ---- properties of POST /run ----
Missing == {"", Undef}
Registered == {"python", "javascript", "node", "java", "c", "cpp", "html"}
Compiled == {"java", "c", "cpp"}
Received(r) == run[r].pc = "idle" /\ run'[r].pc # "idle"
NoProcess(q) == q.nproc = 0 /\ q.proc = "none"

\* C14: a run request whose language or source is missing is answered 400
\* and has no side effect: no folder is created, no file is written, no
\* process is started.
C14_BadRequestNoSideEffect ==
  [][\A r \in Reqs :
       (Received(r) /\ (run'[r].language \in Missing \/ run'[r].code \in Missing)) =>
         /\ run'[r].pc = "done"
         /\ run'[r].res.status = 400 /\ run'[r].nres = 1
         /\ tempDirs' = tempDirs
         /\ tempFiles' = tempFiles
         /\ NoProcess(run'[r])]_vars

C14_Witness ==
  /\ run["r1"].pc = "done" /\ run["r1"].res.status = 400
  /\ run["r1"].language = "python" /\ run["r1"].code = Undef
  /\ tempDirs = {}

\* C15: a run request for a language that no branch handles is answered, not
\* as a fault, {ok:false, output:"Language not supported"}; no process is
\* started and no file is written.
C15_Unsupported ==
  [][\A r \in Reqs :
       (Received(r) /\ run'[r].language \notin Missing \cup Registered
                    /\ run'[r].code \notin Missing) =>
         /\ run'[r].pc = "done"
         /\ run'[r].res = [status |-> 200, ok |-> FALSE, output |-> "Language not supported"]
         /\ run'[r].nres = 1
         /\ tempFiles' = tempFiles
         /\ NoProcess(run'[r])]_vars

C15_Witness ==
  /\ run["r1"].pc = "done" /\ run["r1"].language = "ruby"
  /\ run["r1"].res.output = "Language not supported"
  /\ run["r1"].nproc = 0

\* C16: when the compile step of a java, c or cpp request ends with a non-zero
\* exit or at its timeout, the request is answered ok=false with the output of
\* the compiler and its run step is never started.
C16_CompileFailureShortCircuits ==
  [][\A r \in Reqs :
       /\ (run[r].pc = "compile" /\ run'[r].pc # "compile"
             /\ run'[r].ended \in {"exit1", "timeout"}) =>
            /\ run'[r].language \in Compiled
            /\ run'[r].pc = "done"
            /\ run'[r].res = [status |-> 200, ok |-> FALSE, output |-> run'[r].compiled.out]
            /\ run'[r].compiled.out # Undef
            /\ run'[r].nres = 1
       /\ (run[r].pc = "done" /\ ~run[r].compiled.ok) => run'[r].nproc = run[r].nproc
       /\ (run'[r].pc = "done" /\ run'[r].compiled # NoResult /\ ~run'[r].compiled.ok) =>
            run'[r].nproc = 1]_vars

C16_Witness ==
  \E r \in Reqs :
    /\ run[r].language = "cpp" /\ run[r].pc = "done"
    /\ run[r].ended = "timeout" /\ run[r].nproc = 1
    /\ run[r].res.output = "boom" /\ ~run[r].res.ok

\* C17: a request whose compile or run step ended with a non-zero exit or at
\* its timeout is answered with status 200 and {ok:false, output}, never with
\* a 500.
C17_FailingProgramIsNoFault ==
  \A r \in Reqs :
    (run[r].pc = "done" /\ run[r].ended \in {"exit1", "timeout"}) =>
      /\ run[r].res.status = 200
      /\ ~run[r].res.ok
      /\ run[r].res.output # Undef
      /\ run[r].nres = 1

C17_Witness ==
  \E r \in Reqs :
    /\ run[r].language = "python" /\ run[r].pc = "done"
    /\ run[r].ended = "exit1" /\ run[r].res.status = 200 /\ ~run[r].res.ok

\* C18: the file that a step of a request compiles or executes holds, or was
\* compiled from, the source text of that same request.
C18_OwnArtifacts ==
  \A r \in Reqs : run[r].read.kind # "none" => run[r].read.src = run[r].code

\* the steps by which a pending request r moves on
Progress(r) ==
  \/ ProcRead(r)
  \/ \E o \in Outcomes, e \in StderrTexts : CompileDone(r, o, e)
  \/ \E o \in Outcomes, e \in StderrTexts : RunDone(r, o, e)

\* C19: a request that passed validation and is not answered yet can always
\* move on towards its one response.
C19_EveryRunAnswered ==
  \A r \in Reqs :
    /\ run[r].nres <= 1
    /\ run[r].pc \in {"compile", "run"} => ENABLED Progress(r)

\* the outputs that a step ended by a non-zero exit can be answered with
NonZeroExitOutputs == {RunCommand("exit1", "", e).out : e \in StderrTexts}

\* C20: the answer to a request whose step ended at its timeout is ok=false
\* with an output that no non-zero exit is answered with.
C20_TimeoutDistinguishable ==
  \A r \in Reqs :
    (run[r].pc = "done" /\ run[r].ended = "timeout") =>
      (~run[r].res.ok /\ run[r].res.output \notin NonZeroExitOutputs)

\* C25: the session:init sent for a join as userName lists userName among the
\* users of the session.
C25_InitListsJoiner ==
  (last.h = "join.init" /\ GotInit) => last.userName \in SentInit.users

\* C26: a socket is in the room of no session other than the one that
\* socketUser records for it.
C26_OneRoomPerSocket ==
  \A k \in Conns : \A s \in Sessions :
    k \in rooms[s] => socketUser[k].sessionId = s

\* the disconnect of socket k has been processed: the socket is closed and no
\* handler of it is suspended
Released(k) ==
  /\ conn[k] = "closed"
  /\ \A i \in 1..Len(redisQ) : redisQ[i].conn # k

\* C22: once the disconnect of socket k has been processed, a name u that k
\* ever joined a session S as is in the presence set of S only if another
\* socket joined S as u.
C22_BindingReleased ==
  \A k \in Conns :
    Released(k) =>
      \A b \in joinedAs[k] :
        b[2] \in usersStore[b[1]] => \E o \in Conns \ {k} : b \in joinedAs[o]

\* nothing is on its way: no message unreceived, no handler suspended
Quiescent == redisQ = <<>> /\ \A k \in Conns : outbox[k] = <<>>

\* what the client shows for file f: the editor for the open file, the files
\* map for the others
Held(c, f) ==
  IF c.currentFile = f THEN c.editorValue
  ELSE IF f \in DOMAIN c.files THEN c.files[f] ELSE Undef

Stored(s, f) == IF f \in DOMAIN filesStore[s] THEN filesStore[s][f] ELSE Undef

\* history: the files of the store were last changed by file:update, if at all
OnlyEdited == \A s \in Sessions : \A f \in FileNames : lastMut[s][f].kind \in {"none", "update"}

\* C23: in a quiescent state reached by edits every client in the session
\* holds, for every file, the content that the store holds.
C23_Convergence ==
  (Quiescent /\ OnlyEdited) =>
    \A s \in Sessions : \A k \in rooms[s] : \A f \in FileNames :
      Held(client[k], f) = Stored(s, f)

\* C24: when a file of the session was mutated while a join was suspended, the
\* joiner's files equal the stored files once its session:init and every
\* broadcast have been handled.
C24_JoinerNotStale ==
  (last.h = "join.init" /\ last.dirty # {} /\ Quiescent) =>
    client[last.conn].files = filesStore[last.sessionId]

\* a compile or run step of some request is pending (a hung child included)
StepPending == \E r \in Reqs : run[r].pc \in {"compile", "run"}

====
